---- MODULE Spec2Model ----
(***************************************************************************)
(* A model of bft, a brainfuck interpreter: the program loader/validator   *)
(* (bft_types) and the virtual machine (bft_interp).                       *)
(*                                                                         *)
(* Indices: Rust slices are 0-based, TLA+ sequences 1-based.  ip and head  *)
(* keep the code's 0-based values; ins[ip] of the code is prg[ip + 1] and  *)
(* cells[head] of the code is cells[head + 1].                             *)
(***************************************************************************)
EXTENDS Integers, Sequences, FiniteSets, TLC

VARIABLES
    src,            \* the source text handed to Program::new
    prg,            \* Program.ins: the instructions
    vres,           \* the result of Program::validate
    growable,       \* VirtualMachine.growable
    size,           \* VirtualMachine.size
    cells,          \* VirtualMachine.cells
    ip,             \* VirtualMachine.ip
    head,           \* VirtualMachine.head
    inRead,         \* the bytes the input stream has delivered so far, in order
    eof,            \* the input stream has reported end of stream
    out,            \* bytes written to the output sink
    overflowChecks, \* build profile: arithmetic overflow panics (debug) or wraps
    status,         \* where the caller is: see the actions
    nCalls,         \* interpret calls made so far
    hist,           \* the standalone calls made so far: name and result of each
    last            \* the last operation: its name, result and pre-state

vars == <<src, prg, vres, growable, size, cells, ip, head, inRead, eof, out,
          overflowChecks, status, nCalls, hist, last>>

vmvars == <<growable, size, cells, ip, head, inRead, eof, out, overflowChecks,
            nCalls, hist, last>>

----------------------------------------------------------------------------
(* Bounds of the model *)

\* longest source text of the loader specification
MaxTextLen == 5

\* longest source text, besides the named ones, a machine interprets
MaxSrcLen == 3

\* largest tape a machine that interprets is built with
MaxCells == 2

\* largest size VirtualMachine::new is asked for when it is looked at alone
MaxRequested == 8

\* longest program, besides the named ones, that is run again with comments
\* put in, and the number of comment characters put in
MaxBaseLen == 2
MaxComments == 1

\* interpret calls made on one machine
MaxCalls == 2

\* standalone calls made on one machine
MaxOps == 4

\* longest source text a machine's loop operations are tried on
MaxLoopLen == 5

\* bytes the input stream delivers before its end, bytes the sink takes
MaxInput == 2
MaxOut == 3

\* The width of usize in bits.  It is the target's pointer width; the model
\* takes the smallest one Rust has, the model checker's integers being 32
\* bits wide.  Only a wrapped 0 - 1 ever reaches UsizeMax.
UsizeBits == 16

----------------------------------------------------------------------------
(* bft_types: Instruction, Program *)

NL == "\n"

\* The characters a source text is drawn from: the eight instructions, a
\* line break and one other character.  (A carriage return is left out.)
SrcChars == {">", "<", "+", "-", ".", ",", "[", "]", NL, "a"}

\* Instruction::try_from: the variant of a character at (line, char).
try_from(linenumber, charnumber, ch) ==
    CASE ch = ">" -> [op |-> "IncrementDP", line |-> linenumber, col |-> charnumber]
      [] ch = "<" -> [op |-> "DecrementDP", line |-> linenumber, col |-> charnumber]
      [] ch = "+" -> [op |-> "IncrementByte", line |-> linenumber, col |-> charnumber]
      [] ch = "-" -> [op |-> "DecrementByte", line |-> linenumber, col |-> charnumber]
      [] ch = "." -> [op |-> "Output", line |-> linenumber, col |-> charnumber]
      [] ch = "," -> [op |-> "Input", line |-> linenumber, col |-> charnumber]
      [] ch = "[" -> [op |-> "JumpForward", line |-> linenumber, col |-> charnumber]
      [] ch = "]" -> [op |-> "JumpBack", line |-> linenumber, col |-> charnumber]
      [] OTHER    -> [op |-> "Comment", line |-> linenumber, col |-> charnumber,
                      ch |-> ch]

\* str::lines as Program::new uses it: the text split at line breaks, the
\* line breaks dropped, and no empty last line after a final line break.
RECURSIVE SplitLines(_, _)
SplitLines(s, pieces) ==
    IF s = <<>> THEN pieces
    ELSE IF Head(s) = NL
         THEN SplitLines(Tail(s), Append(pieces, <<>>))
         ELSE SplitLines(Tail(s),
                [pieces EXCEPT ![Len(pieces)] = Append(pieces[Len(pieces)], Head(s))])

lines(content) ==
    LET pieces == SplitLines(content, << <<>> >>)
    IN  IF pieces[Len(pieces)] = <<>>
        THEN SubSeq(pieces, 1, Len(pieces) - 1)
        ELSE pieces

RECURSIVE Flatten(_)
Flatten(ss) == IF ss = <<>> THEN <<>> ELSE Head(ss) \o Flatten(Tail(ss))

\* Program::new numbering lines and characters from 0, as enumerate() does
Program_new_ZeroBased(content) ==
    LET ls == lines(content)
    IN  Flatten([n \in 1..Len(ls) |->
                   [k \in 1..Len(ls[n]) |-> try_from(n - 1, k - 1, ls[n][k])]])

\* Program::new: every character of every line, with its 1-based line and
\* character number, through try_from; the lines flattened in order.
Program_new(content) ==
    LET ls == lines(content)
    IN  Flatten([n \in 1..Len(ls) |->
                   [k \in 1..Len(ls[n]) |-> try_from(n, k, ls[n][k])]])

\* Program::validate: one scan with a stack of the open brackets' positions.
RECURSIVE ValidateScan(_, _, _)
ValidateScan(ins, i, stack) ==
    IF i > Len(ins)
    THEN IF stack # <<>>
         THEN [ok |-> FALSE, kind |-> "ExtraOpen",
               line |-> stack[Len(stack)][1], col |-> stack[Len(stack)][2]]
         ELSE [ok |-> TRUE]
    ELSE CASE ins[i].op = "JumpForward" ->
                ValidateScan(ins, i + 1, Append(stack, <<ins[i].line, ins[i].col>>))
           [] ins[i].op = "JumpBack" ->
                IF stack = <<>>
                THEN [ok |-> FALSE, kind |-> "ExtraClose",
                      line |-> ins[i].line, col |-> ins[i].col]
                ELSE ValidateScan(ins, i + 1, SubSeq(stack, 1, Len(stack) - 1))
           [] OTHER -> ValidateScan(ins, i + 1, stack)

\* validate naming the first bracket left open instead of the last
RECURSIVE ValidateScan_FirstOpen(_, _, _)
ValidateScan_FirstOpen(ins, i, stack) ==
    IF i > Len(ins)
    THEN IF stack # <<>>
         THEN [ok |-> FALSE, kind |-> "ExtraOpen",
               line |-> stack[1][1], col |-> stack[1][2]]
         ELSE [ok |-> TRUE]
    ELSE CASE ins[i].op = "JumpForward" ->
                ValidateScan_FirstOpen(ins, i + 1,
                                       Append(stack, <<ins[i].line, ins[i].col>>))
           [] ins[i].op = "JumpBack" ->
                IF stack = <<>>
                THEN [ok |-> FALSE, kind |-> "ExtraClose",
                      line |-> ins[i].line, col |-> ins[i].col]
                ELSE ValidateScan_FirstOpen(ins, i + 1,
                                            SubSeq(stack, 1, Len(stack) - 1))
           [] OTHER -> ValidateScan_FirstOpen(ins, i + 1, stack)

validate_FirstOpen(ins) == ValidateScan_FirstOpen(ins, 1, <<>>)

\* validate without its check, after the scan, for brackets left open
validate_NoFinalCheck(ins) ==
    LET r == ValidateScan(ins, 1, <<>>)
    IN  IF r.ok \/ r.kind = "ExtraOpen" THEN [ok |-> TRUE] ELSE r

validate(ins) == ValidateScan(ins, 1, <<>>)

----------------------------------------------------------------------------
(* bft_interp: VirtualMachine *)

UsizeMax == 2^UsizeBits - 1

\* the capacity VirtualMachine::new gives a machine asked for 0 cells
DefaultCells == 30000

\* the tape the unit tests build their machines with
TestCells == 3

\* the bytes an input stream is made of: zero, a letter, the largest
InputBytes == {0, 65, 255}

\* VirtualMachine::new taking the requested size as it comes
VirtualMachine_new_NoDefault(requested, g) ==
    [size |-> requested, growable |-> g, cells |-> [i \in 1..requested |-> 0],
     ip |-> 0, head |-> 0]

\* VirtualMachine::new: the fields of a new machine of the requested size.
VirtualMachine_new(requested, g) ==
    LET sz == IF requested = 0 THEN DefaultCells ELSE requested
    IN  [size |-> sz, growable |-> g, cells |-> [i \in 1..sz |-> 0],
         ip |-> 0, head |-> 0]

\* an increment that stays at the largest value, a decrement that takes two
wrapping_increment_Saturating(c) == IF c = 255 THEN 255 ELSE c + 1
wrapping_decrement_ByTwo(c) == (c - 2) % 256

\* CellKind for u8: wrapping_add(1), wrapping_sub(1)
wrapping_increment(c) == (c + 1) % 256
wrapping_decrement(c) == (c - 1) % 256

\* What an operation leaves in `last`: its name, its result, and the machine
\* and the streams as they were when it began.
\* `ret` is the value of an Ok(self.ip) the operation returned, `arg` the
\* argument it was called with; -1 where there is none.
Pre(name, res) ==
    [op |-> name, res |-> res, inInterpret |-> (status = "running"),
     ip |-> ip, head |-> head, cells |-> cells, out |-> out, inRead |-> inRead,
     eof |-> eof, ret |-> -1, arg |-> -1]

\* an operation that returned Ok(v)
Ret(name, v) == [Pre(name, "Ok") EXCEPT !.ret = v]

NoLast ==
    [op |-> "none", res |-> "none", inInterpret |-> FALSE,
     ip |-> 0, head |-> 0, cells |-> <<>>, out |-> <<>>, inRead |-> <<>>,
     eof |-> FALSE, ret |-> -1, arg |-> -1]

NoResult == [ok |-> FALSE, kind |-> "NotRun"]

\* A panic unwinds out of the machine's caller: nothing runs after it.
Panic(name) ==
    /\ status' = "panicked"
    /\ last' = Pre(name, "panic")

\* the variables no operation of the machine writes
fixed == <<src, prg, vres, growable, size, overflowChecks>>

\* move_head_left without its check of the head, as interpret moves the head
move_head_left_Unchecked ==
    /\ head' = (head - 1) % (UsizeMax + 1)
    /\ ip' = ip + 1
    /\ last' = Ret("move_head_left", ip + 1)
    /\ UNCHANGED <<cells, inRead, eof, out, status>>

\* VirtualMachine::move_head_left
move_head_left ==
    IF head = 0
    THEN /\ last' = Pre("move_head_left", "TapeBounds")
         /\ UNCHANGED <<cells, ip, head, inRead, eof, out, status>>
    ELSE /\ head' = head - 1
         /\ ip' = ip + 1
         /\ last' = Ret("move_head_left", ip + 1)
         /\ UNCHANGED <<cells, inRead, eof, out, status>>

\* move_head_right with the end of the tape taken one cell too far
move_head_right_OffByOne ==
    IF head = Len(cells)
    THEN /\ last' = Pre("move_head_right", "TapeBounds")
         /\ UNCHANGED <<cells, ip, head, inRead, eof, out, status>>
    ELSE /\ head' = head + 1
         /\ ip' = ip + 1
         /\ last' = Ret("move_head_right", ip + 1)
         /\ UNCHANGED <<cells, inRead, eof, out, status>>

\* VirtualMachine::move_head_right
move_head_right ==
    IF head = Len(cells) - 1
    THEN /\ last' = Pre("move_head_right", "TapeBounds")
         /\ UNCHANGED <<cells, ip, head, inRead, eof, out, status>>
    ELSE /\ head' = head + 1
         /\ ip' = ip + 1
         /\ last' = Ret("move_head_right", ip + 1)
         /\ UNCHANGED <<cells, inRead, eof, out, status>>

\* input keeping the low seven bits of the byte it read
input_from_SevenBits(bytes) ==
    \/ /\ eof' = TRUE
       /\ last' = Pre("input", "ReadError")
       /\ UNCHANGED <<cells, ip, head, inRead, out, status>>
    \/ /\ ~eof
       /\ Len(inRead) < MaxInput
       /\ \E b \in bytes :
            /\ inRead' = Append(inRead, b)
            /\ IF head >= Len(cells)
               THEN /\ Panic("input")
                    /\ UNCHANGED <<cells, ip, head, eof, out>>
               ELSE /\ cells' = [cells EXCEPT ![head + 1] = b % 128]
                    /\ ip' = ip + 1
                    /\ last' = Ret("input", ip + 1)
                    /\ UNCHANGED <<head, eof, out, status>>

\* VirtualMachine::input.  The stream ends where its source lets it end (at
\* the latest after MaxInput bytes) and stays ended, as a Cursor does.
\* read_exact fails at the end of the stream, before anything is written; a
\* byte read is stored through cells[head], which panics on a head outside
\* the tape, the byte already consumed.
input_from(bytes) ==
    \/ /\ eof' = TRUE
       /\ last' = Pre("input", "ReadError")
       /\ UNCHANGED <<cells, ip, head, inRead, out, status>>
    \/ /\ ~eof
       /\ Len(inRead) < MaxInput
       /\ \E b \in bytes :
            /\ inRead' = Append(inRead, b)
            /\ IF head >= Len(cells)
               THEN /\ Panic("input")
                    /\ UNCHANGED <<cells, ip, head, eof, out>>
               ELSE /\ cells' = [cells EXCEPT ![head + 1] = b]
                    /\ ip' = ip + 1
                    /\ last' = Ret("input", ip + 1)
                    /\ UNCHANGED <<head, eof, out, status>>

\* input that stores the byte and leaves self.ip where it was
input_NoAdvance ==
    \/ /\ eof' = TRUE
       /\ last' = Pre("input", "ReadError")
       /\ UNCHANGED <<cells, ip, head, inRead, out, status>>
    \/ /\ ~eof
       /\ Len(inRead) < MaxInput
       /\ \E b \in InputBytes :
            /\ inRead' = Append(inRead, b)
            /\ IF head >= Len(cells)
               THEN /\ Panic("input")
                    /\ UNCHANGED <<cells, ip, head, eof, out>>
               ELSE /\ cells' = [cells EXCEPT ![head + 1] = b]
                    /\ last' = Ret("input", ip)
                    /\ UNCHANGED <<ip, head, eof, out, status>>

input == input_from(InputBytes)

\* output writing the first cell of the tape, wherever the head is
output_FirstCell ==
    IF head >= Len(cells)
    THEN /\ Panic("output")
         /\ UNCHANGED <<cells, ip, head, inRead, eof, out>>
    ELSE /\ Len(out) < MaxOut
         /\ out' = Append(out, cells[1])
         /\ ip' = ip + 1
         /\ last' = Ret("output", ip + 1)
         /\ UNCHANGED <<cells, head, inRead, eof, status>>

\* VirtualMachine::output, on a sink that takes every byte (the tests' Cursor
\* over a Vec).
output ==
    IF head >= Len(cells)
    THEN /\ Panic("output")
         /\ UNCHANGED <<cells, ip, head, inRead, eof, out>>
    ELSE /\ Len(out) < MaxOut
         /\ out' = Append(out, cells[head + 1])
         /\ ip' = ip + 1
         /\ last' = Ret("output", ip + 1)
         /\ UNCHANGED <<cells, head, inRead, eof, status>>

\* the scan of start_loop without its stack: it stops at the first LoopEnd
RECURSIVE ScanForward_FirstEnd(_, _, _)
ScanForward_FirstEnd(ins, p, stack) ==
    LET q == p + 1
    IN  IF q >= Len(ins) THEN [panic |-> TRUE, ip |-> q]
        ELSE IF ins[q + 1].op = "JumpBack" THEN [panic |-> FALSE, ip |-> q + 1]
             ELSE ScanForward_FirstEnd(ins, q, stack)

\* The scan of start_loop: p is self.ip, stack the open brackets' indices.
\* Reading ins[self.ip] past the last instruction panics.
RECURSIVE ScanForward(_, _, _)
ScanForward(ins, p, stack) ==
    LET q == p + 1
    IN  IF q >= Len(ins) THEN [panic |-> TRUE, ip |-> q]
        ELSE CASE ins[q + 1].op = "JumpForward" ->
                    ScanForward(ins, q, Append(stack, q))
               [] ins[q + 1].op = "JumpBack" ->
                    IF Len(stack) = 1 THEN [panic |-> FALSE, ip |-> q + 1]
                    ELSE ScanForward(ins, q, SubSeq(stack, 1, Len(stack) - 1))
               [] OTHER -> ScanForward(ins, q, stack)

\* the scan of end_loop without its stack: it stops at the first LoopStart
RECURSIVE ScanBackward_FirstStart(_, _, _)
ScanBackward_FirstStart(ins, p, stack) ==
    IF p = 0 THEN [panic |-> TRUE, ip |-> IF overflowChecks THEN 0 ELSE UsizeMax]
    ELSE LET q == p - 1
         IN  IF q >= Len(ins) THEN [panic |-> TRUE, ip |-> q]
             ELSE IF ins[q + 1].op = "JumpForward" THEN [panic |-> FALSE, ip |-> q + 1]
                  ELSE ScanBackward_FirstStart(ins, q, stack)

\* The scan of end_loop.  self.ip -= 1 at 0 panics where overflow is checked
\* and wraps where it is not, and ins[usize::MAX] panics then.
RECURSIVE ScanBackward(_, _, _)
ScanBackward(ins, p, stack) ==
    IF p = 0 THEN [panic |-> TRUE, ip |-> IF overflowChecks THEN 0 ELSE UsizeMax]
    ELSE LET q == p - 1
         IN  IF q >= Len(ins) THEN [panic |-> TRUE, ip |-> q]
             ELSE CASE ins[q + 1].op = "JumpBack" ->
                         ScanBackward(ins, q, Append(stack, q))
                    [] ins[q + 1].op = "JumpForward" ->
                         IF Len(stack) = 1 THEN [panic |-> FALSE, ip |-> q + 1]
                         ELSE ScanBackward(ins, q, SubSeq(stack, 1, Len(stack) - 1))
                    [] OTHER -> ScanBackward(ins, q, stack)

\* VirtualMachine::start_loop
start_loop ==
    IF head >= Len(cells)
    THEN /\ Panic("start_loop")
         /\ UNCHANGED <<cells, ip, head, inRead, eof, out>>
    ELSE LET r == IF cells[head + 1] = 0
                  THEN ScanForward(prg, ip, <<ip>>)
                  ELSE [panic |-> FALSE, ip |-> ip + 1]
         IN  /\ ip' = r.ip
             /\ status' = IF r.panic THEN "panicked" ELSE status
             /\ last' = IF r.panic THEN Pre("start_loop", "panic") ELSE Ret("start_loop", r.ip)
             /\ UNCHANGED <<cells, head, inRead, eof, out>>

\* end_loop jumping back whatever the cell holds
end_loop_AlwaysBack ==
    IF head >= Len(cells)
    THEN /\ Panic("end_loop")
         /\ UNCHANGED <<cells, ip, head, inRead, eof, out>>
    ELSE LET r == ScanBackward(prg, ip, <<ip>>)
         IN  /\ ip' = r.ip
             /\ status' = IF r.panic THEN "panicked" ELSE status
             /\ last' = IF r.panic THEN Pre("end_loop", "panic") ELSE Ret("end_loop", r.ip)
             /\ UNCHANGED <<cells, head, inRead, eof, out>>

\* VirtualMachine::end_loop
end_loop ==
    IF head >= Len(cells)
    THEN /\ Panic("end_loop")
         /\ UNCHANGED <<cells, ip, head, inRead, eof, out>>
    ELSE LET r == IF cells[head + 1] # 0
                  THEN ScanBackward(prg, ip, <<ip>>)
                  ELSE [panic |-> FALSE, ip |-> ip + 1]
         IN  /\ ip' = r.ip
             /\ status' = IF r.panic THEN "panicked" ELSE status
             /\ last' = IF r.panic THEN Pre("end_loop", "panic") ELSE Ret("end_loop", r.ip)
             /\ UNCHANGED <<cells, head, inRead, eof, out>>

----------------------------------------------------------------------------
(* VirtualMachine::interpret, one action per pass of its loop *)

\* the instruction at self.ip
Ins == prg[ip + 1]

InLoop == status = "running" /\ ip < Len(prg)

\* interpret is entered: a machine whose ip is not 0 is rejected.
InterpretCall ==
    /\ status = "idle"
    /\ nCalls < MaxCalls
    /\ nCalls' = nCalls + 1
    /\ IF ip # 0
       THEN /\ last' = Pre("interpret", "AlreadyExecuted")
            /\ UNCHANGED status
       ELSE /\ last' = Pre("interpret", "entered")
            /\ status' = "running"
    /\ UNCHANGED <<cells, ip, head, inRead, eof, out, hist>>
    /\ UNCHANGED fixed

\* if self.ip >= length { break; } ... Ok(())
InterpretReturn ==
    /\ status = "running"
    /\ ip >= Len(prg)
    /\ status' = "idle"
    /\ last' = Pre("interpret", "Ok")
    /\ UNCHANGED <<cells, ip, head, inRead, eof, out, nCalls, hist>>
    /\ UNCHANGED fixed

\* Instruction::IncrementDP: self.head += 1; self.ip += 1
StepIncrementDP ==
    /\ InLoop
    /\ Ins.op = "IncrementDP"
    /\ IF head = UsizeMax /\ overflowChecks
       THEN /\ Panic("IncrementDP")
            /\ UNCHANGED <<head, ip>>
       ELSE /\ head' = (head + 1) % (UsizeMax + 1)
            /\ ip' = ip + 1
            /\ last' = Pre("IncrementDP", "Ok")
            /\ UNCHANGED status
    /\ UNCHANGED <<cells, inRead, eof, out, nCalls, hist>>
    /\ UNCHANGED fixed

\* Instruction::DecrementDP: self.head -= 1; self.ip += 1
StepDecrementDP ==
    /\ InLoop
    /\ Ins.op = "DecrementDP"
    /\ IF head = 0 /\ overflowChecks
       THEN /\ Panic("DecrementDP")
            /\ UNCHANGED <<head, ip>>
       ELSE /\ head' = (head - 1) % (UsizeMax + 1)
            /\ ip' = ip + 1
            /\ last' = Pre("DecrementDP", "Ok")
            /\ UNCHANGED status
    /\ UNCHANGED <<cells, inRead, eof, out, nCalls, hist>>
    /\ UNCHANGED fixed

\* Instruction::IncrementByte: self.cells[self.head].wrapping_increment()
StepIncrementByte ==
    /\ InLoop
    /\ Ins.op = "IncrementByte"
    /\ IF head >= Len(cells)
       THEN /\ Panic("IncrementByte")
            /\ UNCHANGED <<cells, ip>>
       ELSE /\ cells' = [cells EXCEPT ![head + 1] = wrapping_increment(@)]
            /\ ip' = ip + 1
            /\ last' = Pre("IncrementByte", "Ok")
            /\ UNCHANGED status
    /\ UNCHANGED <<head, inRead, eof, out, nCalls, hist>>
    /\ UNCHANGED fixed

\* Instruction::DecrementByte: self.cells[self.head].wrapping_decrement()
StepDecrementByte ==
    /\ InLoop
    /\ Ins.op = "DecrementByte"
    /\ IF head >= Len(cells)
       THEN /\ Panic("DecrementByte")
            /\ UNCHANGED <<cells, ip>>
       ELSE /\ cells' = [cells EXCEPT ![head + 1] = wrapping_decrement(@)]
            /\ ip' = ip + 1
            /\ last' = Pre("DecrementByte", "Ok")
            /\ UNCHANGED status
    /\ UNCHANGED <<head, inRead, eof, out, nCalls, hist>>
    /\ UNCHANGED fixed

\* Instruction::Output: let _ = self.output(output)
StepOutput ==
    /\ InLoop
    /\ Ins.op = "Output"
    /\ output
    /\ UNCHANGED <<nCalls, hist>>
    /\ UNCHANGED fixed

\* Instruction::Input: let _ = self.input(input).  The result is dropped: a
\* failed read leaves ip where it is and the loop goes round again.
StepInput ==
    /\ InLoop
    /\ Ins.op = "Input"
    /\ input
    /\ UNCHANGED <<nCalls, hist>>
    /\ UNCHANGED fixed

\* Instruction::JumpForward: self.start_loop()?  (start_loop returns no Err)
StepJumpForward ==
    /\ InLoop
    /\ Ins.op = "JumpForward"
    /\ start_loop
    /\ UNCHANGED <<nCalls, hist>>
    /\ UNCHANGED fixed

\* Instruction::JumpBack: self.end_loop()?  (end_loop returns no Err)
StepJumpBack ==
    /\ InLoop
    /\ Ins.op = "JumpBack"
    /\ end_loop
    /\ UNCHANGED <<nCalls, hist>>
    /\ UNCHANGED fixed

\* a Comment that also steps over the instruction after it
StepComment_SkipsNext ==
    /\ InLoop
    /\ Ins.op = "Comment"
    /\ ip' = ip + 2
    /\ last' = Pre("Comment", "Ok")
    /\ UNCHANGED <<cells, head, inRead, eof, out, status, nCalls, hist>>
    /\ UNCHANGED fixed

\* Instruction::Comment: self.ip += 1
StepComment ==
    /\ InLoop
    /\ Ins.op = "Comment"
    /\ ip' = ip + 1
    /\ last' = Pre("Comment", "Ok")
    /\ UNCHANGED <<cells, head, inRead, eof, out, status, nCalls, hist>>
    /\ UNCHANGED fixed

Step ==
    \/ StepIncrementDP
    \/ StepDecrementDP
    \/ StepIncrementByte
    \/ StepDecrementByte
    \/ StepOutput
    \/ StepInput
    \/ StepJumpForward
    \/ StepJumpBack
    \/ StepComment

----------------------------------------------------------------------------
(* A machine that interprets: built on a program, then interpret is called, *)
(* and called again.                                                        *)

\* the longer source texts: the tests' program and the specification's
NamedSources ==
    { <<"+", "[", "-", "]">>,
      <<",", "[", "-", "]">>,
      <<"[", "[", "]", "]">>,
      <<"+", "[", "[", "-", "]", "]">>,
      <<",", "[", ".", "-", "]">>,
      <<"+", "+", ">", " ", "+", "+", "+", "+", "+", " ", "[", "<", "+", ">", "-", "]">> }

Texts(n) == UNION {[1..k -> SrcChars] : k \in 0..n}

Sources == Texts(MaxSrcLen) \cup NamedSources

\* The state Program::new, validate and VirtualMachine::new leave.
Built(text, requested, g) ==
    LET vm == VirtualMachine_new(requested, g)
    IN  /\ src = text
        /\ prg = Program_new(text)
        /\ vres = validate(Program_new(text))
        /\ growable = vm.growable
        /\ size = vm.size
        /\ cells = vm.cells
        /\ ip = vm.ip
        /\ head = vm.head
        /\ inRead = <<>>
        /\ eof = FALSE
        /\ out = <<>>
        /\ status = "idle"
        /\ nCalls = 0
        /\ hist = <<>>
        /\ last = NoLast

Init ==
    /\ overflowChecks \in BOOLEAN
    /\ \E text \in Sources, requested \in 1..MaxCells, g \in BOOLEAN :
          Built(text, requested, g)

Next == InterpretCall \/ Step \/ InterpretReturn

Spec == Init /\ [][Next]_vars

----------------------------------------------------------------------------
(* A machine whose operations are called one by one, as the unit tests do. *)

\* the call just made, for the history
Made == [op |-> last'.op, res |-> last'.res]

CanCall == status = "idle" /\ Len(hist) < MaxOps

CallMoveHeadLeft ==
    /\ CanCall
    /\ move_head_left
    /\ hist' = Append(hist, Made)
    /\ UNCHANGED nCalls
    /\ UNCHANGED fixed

CallMoveHeadRight ==
    /\ CanCall
    /\ move_head_right
    /\ hist' = Append(hist, Made)
    /\ UNCHANGED nCalls
    /\ UNCHANGED fixed

CallInput ==
    /\ CanCall
    /\ input
    /\ hist' = Append(hist, Made)
    /\ UNCHANGED nCalls
    /\ UNCHANGED fixed

CallOutput ==
    /\ CanCall
    /\ output
    /\ hist' = Append(hist, Made)
    /\ UNCHANGED nCalls
    /\ UNCHANGED fixed

CallStartLoop ==
    /\ CanCall
    /\ start_loop
    /\ hist' = Append(hist, Made)
    /\ UNCHANGED nCalls
    /\ UNCHANGED fixed

CallEndLoop ==
    /\ CanCall
    /\ end_loop
    /\ hist' = Append(hist, Made)
    /\ UNCHANGED nCalls
    /\ UNCHANGED fixed

Call ==
    \/ CallMoveHeadLeft
    \/ CallMoveHeadRight
    \/ CallInput
    \/ CallOutput
    \/ CallStartLoop
    \/ CallEndLoop

\* the tests' program, and programs with every other instruction
OpsSources ==
    { <<"+", "+", ">", " ", "+", "+", "+", "+", "+", " ", "[", "<", "+", ">", "-", "]">>,
      <<"[", "[", "]", "]">>,
      <<",", ".">> }

InitOps ==
    /\ overflowChecks \in BOOLEAN
    /\ \E text \in OpsSources, requested \in {1, TestCells}, g \in BOOLEAN :
          Built(text, requested, g)

NextOps == Call

SpecOps == InitOps /\ [][NextOps]_vars

----------------------------------------------------------------------------
(* start_loop and end_loop tried at every place of a program, the machine  *)
(* set there as the tests t_jump_forward and t_jump_back set it: vm.ip and *)
(* vm.cells written directly.                                              *)

LoopChars == {"[", "]", "+"}

LoopTexts == UNION {[1..k -> LoopChars] : k \in 1..MaxLoopLen}

InitLoop ==
    /\ overflowChecks \in BOOLEAN
    /\ \E text \in LoopTexts, c \in {0, 1, 255} :
        \E p \in 0..(Len(text) - 1) :
          /\ src = text
          /\ prg = Program_new(text)
          /\ vres = validate(Program_new(text))
          /\ growable = FALSE
          /\ size = 1
          /\ cells = <<c>>
          /\ ip = p
          /\ head = 0
          /\ inRead = <<>>
          /\ eof = FALSE
          /\ out = <<>>
          /\ status = "idle"
          /\ nCalls = 0
          /\ hist = <<>>
          /\ last = NoLast

NextLoop == CallStartLoop \/ CallEndLoop

SpecLoop == InitLoop /\ [][NextLoop]_vars

----------------------------------------------------------------------------
(* The loader on its own: a source text is parsed, then validated. *)

InitLoader ==
    /\ src \in Texts(MaxTextLen)
    /\ prg = <<>>
    /\ vres = NoResult
    /\ status = "text"
    /\ overflowChecks = FALSE
    /\ growable = FALSE
    /\ size = 1
    /\ cells = <<0>>
    /\ ip = 0
    /\ head = 0
    /\ inRead = <<>>
    /\ eof = FALSE
    /\ out = <<>>
    /\ nCalls = 0
    /\ hist = <<>>
    /\ last = NoLast

\* Program::new(filename, content)
Parse ==
    /\ status = "text"
    /\ prg' = Program_new(src)
    /\ status' = "parsed"
    /\ UNCHANGED <<src, vres>>
    /\ UNCHANGED vmvars

\* program.validate()
Validate ==
    /\ status = "parsed"
    /\ vres' = validate(prg)
    /\ status' = "validated"
    /\ UNCHANGED <<src, prg>>
    /\ UNCHANGED vmvars

NextLoader == Parse \/ Validate

SpecLoader == InitLoader /\ [][NextLoader]_vars

----------------------------------------------------------------------------
(* A one-cell machine on the short programs that read, write and count a   *)
(* byte, over every value a byte has.  As the unit tests do for the loops, *)
(* the cell is set to a value before interpret is called.                  *)

AnyByte == 0..255

EchoSource == <<",", ".">>

ClearSource == <<"[", "-", "]">>

SetClearSource == <<"+", "[", "-", "]">>

\* the programs run on a new machine, and those run on a cell set before
FreshSources == {EchoSource, SetClearSource}

SetSources == {ClearSource, <<"+", "-">>, <<"-", "+">>}

\* vm.cells[0] = v, as the caller's history keeps it
CellSet(v) == [op |-> "set_cell", res |-> "Ok", arg |-> v]

InitBytes ==
    /\ overflowChecks \in BOOLEAN
    /\ \/ \E text \in FreshSources :
             /\ src = text
             /\ cells = VirtualMachine_new(1, FALSE).cells
             /\ hist = <<>>
       \/ \E text \in SetSources, v \in AnyByte :
             /\ src = text
             /\ cells = [VirtualMachine_new(1, FALSE).cells EXCEPT ![1] = v]
             /\ hist = <<CellSet(v)>>
    /\ prg = Program_new(src)
    /\ vres = validate(Program_new(src))
    /\ growable = FALSE
    /\ size = 1
    /\ ip = 0
    /\ head = 0
    /\ inRead = <<>>
    /\ eof = FALSE
    /\ out = <<>>
    /\ status = "idle"
    /\ nCalls = 0
    /\ last = NoLast

\* Instruction::Input on a stream of any bytes
StepInputByte ==
    /\ InLoop
    /\ Ins.op = "Input"
    /\ input_from(AnyByte)
    /\ UNCHANGED <<nCalls, hist>>
    /\ UNCHANGED fixed

\* interpret's loop, for the instructions these programs have
Run ==
    \/ StepIncrementByte
    \/ StepDecrementByte
    \/ StepOutput
    \/ StepInputByte
    \/ StepJumpForward
    \/ StepJumpBack
    \/ InterpretReturn

NextBytes == InterpretCall \/ Run

SpecBytes == InitBytes /\ [][NextBytes]_vars

\* interpret, once entered, runs on: nothing else holds the thread
FairSpecBytes == SpecBytes /\ WF_vars(Run)

----------------------------------------------------------------------------
(* The way to a machine: a source text is parsed and validated, and on a   *)
(* program found balanced VirtualMachine::new is called with any size.     *)

InitNew ==
    /\ src \in NamedSources
    /\ prg = <<>>
    /\ vres = NoResult
    /\ status = "text"
    /\ overflowChecks = FALSE
    /\ growable = FALSE
    /\ size = 0
    /\ cells = <<>>
    /\ ip = 0
    /\ head = 0
    /\ inRead = <<>>
    /\ eof = FALSE
    /\ out = <<>>
    /\ nCalls = 0
    /\ hist = <<>>
    /\ last = NoLast

\* VirtualMachine::new(size, growable, prog)
New ==
    /\ status = "validated"
    /\ vres.ok
    /\ \E requested \in 0..MaxRequested, g \in BOOLEAN :
         LET vm == VirtualMachine_new(requested, g)
         IN  /\ size' = vm.size
             /\ growable' = vm.growable
             /\ cells' = vm.cells
             /\ ip' = vm.ip
             /\ head' = vm.head
             /\ last' = [NoLast EXCEPT !.op = "new", !.res = "Ok",
                                       !.arg = requested]
    /\ status' = "idle"
    /\ UNCHANGED <<src, prg, vres, overflowChecks, inRead, eof, out, nCalls, hist>>

NextNew == Parse \/ Validate \/ New

SpecNew == InitNew /\ [][NextNew]_vars

----------------------------------------------------------------------------
(* A program is interpreted, and then the same program with comment        *)
(* characters put into its text is interpreted on a new machine of the     *)
(* same size.                                                              *)

\* the characters try_from makes an instruction other than Comment of
InstrChars == {">", "<", "+", "-", ".", ",", "[", "]"}

\* the characters put in: one try_from makes a Comment of, and the line break
CommentChars == {"a", NL}

\* the programs run first: no comment in them, and validate accepts them
BaseSources ==
    {t \in UNION {[1..k -> InstrChars] : k \in 0..MaxBaseLen}
             \cup { <<"+", "[", "-", "]">>,
                    <<"[", "[", "]", "]">>,
                    <<",", "[", ".", "-", "]">> } :
        validate(Program_new(t)).ok}

Insert(s, pos, ch) == SubSeq(s, 1, pos) \o <<ch>> \o SubSeq(s, pos + 1, Len(s))

\* the texts made from s by putting in up to n comment characters
RECURSIVE Commented(_, _)
Commented(s, n) ==
    IF n = 0 THEN {s}
    ELSE LET fewer == Commented(s, n - 1)
         IN  fewer \cup UNION {{Insert(t, pos, ch) :
                                   pos \in 0..Len(t), ch \in CommentChars} :
                                 t \in fewer}

InitComment ==
    /\ overflowChecks \in BOOLEAN
    /\ \E text \in BaseSources, requested \in 1..MaxCells, g \in BOOLEAN :
          Built(text, requested, g)

\* how the first run ended, as the caller keeps it
Ended ==
    [op |-> "interpret", res |-> "Ok", src |-> src, cells |-> cells,
     head |-> head, out |-> out, inRead |-> inRead]

\* After interpret has returned Ok, the text with comments put in is parsed,
\* validated and given to a new machine of the same size, with new streams.
Rerun ==
    /\ status = "idle"
    /\ last.op = "interpret"
    /\ last.res = "Ok"
    /\ nCalls = 1
    /\ hist = <<>>
    /\ \E text \in Commented(src, MaxComments) \ {src} :
         LET vm == VirtualMachine_new(size, growable)
         IN  /\ src' = text
             /\ prg' = Program_new(text)
             /\ vres' = validate(Program_new(text))
             /\ cells' = vm.cells
             /\ ip' = vm.ip
             /\ head' = vm.head
    /\ inRead' = <<>>
    /\ eof' = FALSE
    /\ out' = <<>>
    /\ hist' = <<Ended>>
    /\ last' = NoLast
    /\ UNCHANGED <<growable, size, overflowChecks, status, nCalls>>

NextComment == InterpretCall \/ Step \/ InterpretReturn \/ Rerun

SpecComment == InitComment /\ [][NextComment]_vars

----------------------------------------------------------------------------
(* A machine whose operations are called one by one and on which interpret *)
(* is called too, before, between or after them.                           *)

NextMixed == Call \/ InterpretCall \/ Step \/ InterpretReturn

SpecMixed == InitOps /\ [][NextMixed]_vars

----------------------------------------------------------------------------
(* Claims *)

CountOf(s, ch) == Cardinality({i \in 1..Len(s) : s[i] = ch})

\* The '[' and ']' of a text are well nested: no prefix holds more ']' than
\* '[', and the whole text holds as many of each.
WellNested(s) ==
    /\ \A k \in 0..Len(s) :
          CountOf(SubSeq(s, 1, k), "[") >= CountOf(SubSeq(s, 1, k), "]")
    /\ CountOf(s, "[") = CountOf(s, "]")

\* C1: validate returns Ok exactly when the '[' and ']' of the source text
\* are well nested; no other character of the text has any influence.
C1_ValidateIffWellNested ==
    status = "validated" => (vres.ok <=> WellNested(src))

\* C1's case: a nested text with other characters in it validates, and a
\* text with as many '[' as ']' in the wrong order does not.
C1_Witness ==
    /\ status = "validated"
    /\ vres.ok
    /\ src = <<"[", "a", "[", "]", "]">>

\* C2: a second interpret call on a machine whose first call completed is
\* rejected as already executed, for every program, the empty one included,
\* and leaves tape, head and ip as the first run left them.
C2_SecondInterpretRejected ==
    (status = "idle" /\ nCalls = 2 /\ last.op = "interpret") =>
        /\ last.res = "AlreadyExecuted"
        /\ cells = last.cells
        /\ head = last.head
        /\ ip = last.ip

\* C3: on a tape that cannot grow, a MoveRight of interpret with the head at
\* the last index ends interpret with a tape-bounds error and the head stays
\* inside the tape.
C3_MoveRightAtEndHalts ==
    (~growable /\ last.op = "IncrementDP" /\ last.head = Len(last.cells) - 1) =>
        /\ last.res = "TapeBounds"
        /\ status # "running"
        /\ head < Len(cells)

\* C4: a MoveLeft of interpret with the head at 0 ends interpret with a
\* tape-bounds error, growable or not, and leaves head, tape and ip alone.
C4_MoveLeftAtZeroHalts ==
    (last.op = "DecrementDP" /\ last.head = 0) =>
        /\ last.res = "TapeBounds"
        /\ status # "running"
        /\ head = 0
        /\ cells = last.cells
        /\ ip = last.ip

\* C5: an Input of interpret on a stream at its end ends interpret with a
\* read error, tape unchanged and ip at that Input; interpret does not go on.
C5_InputAtEndHalts ==
    (last.op = "input" /\ last.inInterpret /\ last.res = "ReadError") =>
        /\ status # "running"
        /\ cells = last.cells
        /\ ip = last.ip

\* C6: on a growable machine a MoveRight with the head at the last index
\* appends one zero cell, moves the head onto it and advances ip by one, the
\* other cells unchanged; in interpret and in move_head_right alike.
C6_MoveRightGrowsTape ==
    (growable /\ last.op \in {"IncrementDP", "move_head_right"}
              /\ last.head = Len(last.cells) - 1) =>
        /\ cells = Append(last.cells, 0)
        /\ head = last.head + 1
        /\ ip = last.ip + 1

\* the calls made so far are all move_head_right, on the tests' fixed tape
OnlyRightMoves ==
    /\ ~growable
    /\ Len(cells) = TestCells
    /\ \A k \in 1..Len(hist) : hist[k].op = "move_head_right"

\* C7 as claimed: on a fixed 3-cell tape, from head 0, three move_head_right
\* calls succeed (ending at head 2) and a fourth fails with the tape-bounds
\* error.
C7_ThreeMovesSucceed ==
    OnlyRightMoves =>
        /\ \A k \in 1..Len(hist) :
              hist[k].res = IF k <= 3 THEN "Ok" ELSE "TapeBounds"
        /\ Len(hist) = 3 => head = 2

\* C7 amended: on a fixed 3-cell tape, from head 0, the first two
\* move_head_right calls succeed (ending at head 2); the third and every
\* later call fails with the tape-bounds error and leaves the head at 2.
C7_TwoMovesSucceed ==
    OnlyRightMoves =>
        /\ \A k \in 1..Len(hist) :
              hist[k].res = IF k <= 2 THEN "Ok" ELSE "TapeBounds"
        /\ head = IF Len(hist) <= 2 THEN Len(hist) ELSE 2

\* C7's case: four move_head_right calls were made on the fixed 3-cell tape.
C7_Witness ==
    /\ OnlyRightMoves
    /\ Len(hist) = 4
    /\ hist[3].res = "TapeBounds"
    /\ hist[4].res = "TapeBounds"
    /\ head = 2

\* C8: move_head_left called with head = 0 fails with the tape-bounds error,
\* growable or not, and leaves head, ip and tape alone; with head > 0 it
\* moves the head down by one and ip up by one.
C8_MoveHeadLeft ==
    (last.op = "move_head_left") =>
        IF last.head = 0
        THEN /\ last.res = "TapeBounds"
             /\ head = last.head
             /\ ip = last.ip
             /\ cells = last.cells
        ELSE /\ last.res = "Ok"
             /\ head = last.head - 1
             /\ ip = last.ip + 1

\* C8's case: on a growable machine the head went right, came back, and a
\* further move_head_left at head 0 failed.
C8_Witness ==
    /\ growable
    /\ Len(hist) = 3
    /\ hist[1] = [op |-> "move_head_right", res |-> "Ok"]
    /\ hist[2] = [op |-> "move_head_left", res |-> "Ok"]
    /\ hist[3] = [op |-> "move_head_left", res |-> "TapeBounds"]
    /\ last.head = 0
    /\ head = 0

\* Well-nested matching, by counting: the brackets among ins[a..b] pair up.
OpCount(ins, a, b, op) == Cardinality({k \in a..b : ins[k].op = op})

Paired(ins, a, b) ==
    OpCount(ins, a, b, "JumpForward") = OpCount(ins, a, b, "JumpBack")

\* the place (from 1) of the LoopEnd matching the LoopStart at place i
MatchingEnd(ins, i) ==
    CHOOSE j \in (i + 1)..Len(ins) :
        /\ Paired(ins, i, j)
        /\ \A m \in (i + 1)..(j - 1) : ~Paired(ins, i, m)

\* the place (from 1) of the LoopStart matching the LoopEnd at place j
MatchingStart(ins, j) ==
    CHOOSE i \in 1..(j - 1) :
        /\ Paired(ins, i, j)
        /\ \A m \in (i + 1)..(j - 1) : ~Paired(ins, m, j)

\* the operation just made began on an instruction `op` of a balanced program
BeganOn(name, op) ==
    /\ last.op = name
    /\ vres.ok
    /\ last.ip < Len(prg)
    /\ prg[last.ip + 1].op = op
    /\ last.head < Len(last.cells)

\* C9: start_loop on a LoopStart of a balanced program sets ip just after the
\* matching LoopEnd if the cell at head is zero, and to ip + 1 if it is not;
\* it reads no instruction outside the program and leaves tape and head alone.
C9_StartLoop ==
    BeganOn("start_loop", "JumpForward") =>
        /\ last.res = "Ok"
        /\ ip = IF last.cells[last.head + 1] = 0
                THEN MatchingEnd(prg, last.ip + 1)
                ELSE last.ip + 1
        /\ cells = last.cells
        /\ head = last.head

\* C9's case: the outer LoopStart of a nested loop, on a zero cell.
C9_Witness ==
    /\ BeganOn("start_loop", "JumpForward")
    /\ src = <<"[", "[", "]", "+", "]">>
    /\ last.ip = 0
    /\ last.cells[last.head + 1] = 0
    /\ ip = 5

\* C10: end_loop on a LoopEnd of a balanced program sets ip just after the
\* matching LoopStart if the cell at head is not zero, and to ip + 1 if it
\* is; it reads no instruction outside the program and leaves tape and head
\* alone.
C10_EndLoop ==
    BeganOn("end_loop", "JumpBack") =>
        /\ last.res = "Ok"
        /\ ip = IF last.cells[last.head + 1] # 0
                THEN MatchingStart(prg, last.ip + 1)
                ELSE last.ip + 1
        /\ cells = last.cells
        /\ head = last.head

\* C10's case: the outer LoopEnd of a nested loop, on a cell that is not zero.
C10_Witness ==
    /\ BeganOn("end_loop", "JumpBack")
    /\ src = <<"[", "+", "[", "]", "]">>
    /\ last.ip = 4
    /\ last.cells[last.head + 1] = 255
    /\ ip = 1

\* the character an instruction stands for
CharOf(i) ==
    CASE i.op = "IncrementDP" -> ">"
      [] i.op = "DecrementDP" -> "<"
      [] i.op = "IncrementByte" -> "+"
      [] i.op = "DecrementByte" -> "-"
      [] i.op = "Output" -> "."
      [] i.op = "Input" -> ","
      [] i.op = "JumpForward" -> "["
      [] i.op = "JumpBack" -> "]"
      [] OTHER -> i.ch

Loaded == status \in {"parsed", "validated"}

\* C11: Program::new gives every character of the source text one
\* instruction, in order, and drops none: a line break becomes a Comment, and
\* there are as many instructions as characters.
C11_NoCharacterDropped ==
    Loaded =>
        /\ Len(prg) = Len(src)
        /\ \A i \in 1..Len(prg) :
              /\ CharOf(prg[i]) = src[i]
              /\ src[i] = NL => prg[i].op = "Comment"

\* the place in s of its j-th character that is no line break
PosOf(s, j) ==
    CHOOSE p \in 1..Len(s) :
        /\ s[p] # NL
        /\ Cardinality({q \in 1..p : s[q] # NL}) = j

\* the physical line of place p of s, and p's place in that line, from 1
LineOf(s, p) == 1 + CountOf(SubSeq(s, 1, p - 1), NL)

ColOf(s, p) ==
    LET breaks == {q \in 1..(p - 1) : s[q] = NL}
    IN  p - (IF breaks = {} THEN 0
             ELSE CHOOSE q \in breaks : \A r \in breaks : r <= q)

\* C12: every instruction of Program::new carries the line and the column,
\* both from 1, of its character: the k-th character of the n-th physical
\* line has (n, k), the column starting again at 1 on every line.
C12_Positions ==
    Loaded =>
        /\ Len(prg) = Len(src) - CountOf(src, NL)
        /\ \A j \in 1..Len(prg) :
              /\ CharOf(prg[j]) = src[PosOf(src, j)]
              /\ prg[j].line = LineOf(src, PosOf(src, j))
              /\ prg[j].col = ColOf(src, PosOf(src, j))

\* C12's case: a character after an empty line, second on the third line.
C12_Witness ==
    /\ Loaded
    /\ src = <<"+", NL, NL, "a", "]">>
    /\ prg[3].op = "JumpBack"
    /\ prg[3].line = 3
    /\ prg[3].col = 2

\* the LoopEnds reached while no LoopStart is open, were the scan to go on
ExtraCloses(ins) ==
    {j \in 1..Len(ins) :
        /\ ins[j].op = "JumpBack"
        /\ OpCount(ins, 1, j, "JumpBack") > OpCount(ins, 1, j, "JumpForward")}

\* the LoopStarts no later LoopEnd closes
OpenStarts(ins) ==
    {i \in 1..Len(ins) :
        /\ ins[i].op = "JumpForward"
        /\ \A m \in i..Len(ins) :
              OpCount(ins, i, m, "JumpForward") > OpCount(ins, i, m, "JumpBack")}

Least(S) == CHOOSE x \in S : \A y \in S : x <= y

Greatest(S) == CHOOSE x \in S : \A y \in S : y <= x

\* C13: a failed validate names the first LoopEnd reached while no LoopStart
\* is open, or, if there is none, the last LoopStart left open.
C13_ErrorNamesBracket ==
    (status = "validated" /\ ~vres.ok) =>
        IF ExtraCloses(prg) # {}
        THEN /\ vres.kind = "ExtraClose"
             /\ vres.line = prg[Least(ExtraCloses(prg))].line
             /\ vres.col = prg[Least(ExtraCloses(prg))].col
        ELSE /\ vres.kind = "ExtraOpen"
             /\ OpenStarts(prg) # {}
             /\ vres.line = prg[Greatest(OpenStarts(prg))].line
             /\ vres.col = prg[Greatest(OpenStarts(prg))].col

\* C13's case: two LoopStarts are left open, a closed loop between them.
C13_Witness ==
    /\ status = "validated"
    /\ src = <<"[", "[", "]", NL, "[">>
    /\ vres.kind = "ExtraOpen"
    /\ vres.line = 2
    /\ vres.col = 1

ReturnedOk == status = "idle" /\ last.op = "interpret" /\ last.res = "Ok"

\* C14: interpret of `,.` on a new machine, the input stream beginning with
\* a byte b, for every b: it takes one byte from the stream, writes the one
\* byte b to the sink, and returns Ok.
C14_EchoesByte ==
    (src = EchoSource /\ nCalls = 1) =>
        /\ status # "panicked"
        /\ Len(inRead) <= 1
        /\ Len(inRead) = 1 =>
              /\ ip >= 1
              /\ cells[1] = inRead[1]
              /\ out = IF ip = 1 THEN <<>> ELSE <<inRead[1]>>
        /\ (status = "idle" /\ inRead # <<>>) =>
              /\ ReturnedOk
              /\ Len(inRead) = 1
              /\ out = <<inRead[1]>>

\* C14's case: the byte 200 was read and written and interpret returned.
C14_Witness ==
    /\ src = EchoSource
    /\ nCalls = 1
    /\ ReturnedOk
    /\ inRead = <<200>>
    /\ out = <<200>>

\* C15: interpret of `[-]` on a cell of any value, and of `+[-]` on a new
\* machine, once entered always comes to return Ok with the cell at the head
\* 0 and the head where it was.
C15_ClearLoopHalts ==
    (status = "running" /\ src \in {ClearSource, SetClearSource})
        ~> (ReturnedOk /\ ip = Len(prg) /\ head = 0 /\ cells[head + 1] = 0)

\* C15's case: the loop ran a cell of 255 down to 0 and interpret returned.
C15_Witness ==
    /\ src = ClearSource
    /\ hist = <<CellSet(255)>>
    /\ ReturnedOk
    /\ cells = <<0>>
    /\ head = 0

\* C18: Increment and Decrement undo each other on every value of a cell
\* and wrap at 256: 255 incremented is 0, 0 decremented is 255, and any other
\* value moves by exactly one.
C18_IncDecInverse ==
    /\ (last.op = "IncrementByte" /\ last.res = "Ok") =>
          cells[head + 1] = IF last.cells[head + 1] = 255 THEN 0
                            ELSE last.cells[head + 1] + 1
    /\ (last.op = "DecrementByte" /\ last.res = "Ok") =>
          cells[head + 1] = IF last.cells[head + 1] = 0 THEN 255
                            ELSE last.cells[head + 1] - 1
    /\ (src \in {<<"+", "-">>, <<"-", "+">>} /\ ip = 2) =>
          cells[1] = hist[1].arg

\* C18's case: 255 was incremented to 0 and decremented back to 255.
C18_Witness ==
    /\ src = <<"+", "-">>
    /\ hist = <<CellSet(255)>>
    /\ ip = 2
    /\ last.op = "DecrementByte"
    /\ last.cells = <<0>>
    /\ cells = <<255>>

\* C16: input called on its own.  With a byte to read it takes exactly one
\* byte from the stream, stores it in the cell at the head, adds one to ip and
\* returns the new ip; with no byte to read it returns an error and leaves
\* the cell, the head and ip as they were.
C16_StandaloneInput ==
    (last.op = "input" /\ ~last.inInterpret) =>
        /\ last.res \in {"Ok", "ReadError"}
        /\ last.eof => last.res = "ReadError"
        /\ last.res = "Ok" =>
              /\ Len(inRead) = Len(last.inRead) + 1
              /\ SubSeq(inRead, 1, Len(last.inRead)) = last.inRead
              /\ cells = [last.cells EXCEPT ![last.head + 1] = inRead[Len(inRead)]]
              /\ head = last.head
              /\ ip = last.ip + 1
              /\ last.ret = ip
        /\ last.res = "ReadError" =>
              /\ inRead = last.inRead
              /\ cells = last.cells
              /\ head = last.head
              /\ ip = last.ip

\* C16's case: a second byte was read into the second cell, the first call
\* having moved ip to 1.
C16_Witness ==
    /\ last.op = "input"
    /\ last.res = "Ok"
    /\ ~last.inInterpret
    /\ head = 1
    /\ inRead = <<255, 65>>
    /\ cells[2] = 65
    /\ last.ret = last.ip + 1

C19_NewMachine ==
    last.op = "new" =>
        /\ Len(cells) = IF last.arg = 0 THEN 30000 ELSE last.arg
        /\ Len(cells) > 0
        /\ size = Len(cells)
        /\ \A i \in 1..Len(cells) : cells[i] = 0
        /\ head = 0
        /\ ip = 0

\* C19's case: a machine was asked for with size 0.
C19_Witness ==
    /\ last.op = "new"
    /\ last.arg = 0
    /\ Len(cells) = 30000
    /\ status = "idle"

\* C20: while a balanced program is interpreted, ip stays between 0 and the
\* program's length; from one step to the next it goes down only on a
\* LoopEnd met with a cell that is not 0; and interpret returns Ok only with
\* ip at the program's length.
C20_PointerInProgram ==
    vres.ok =>
        /\ ip \in 0..Len(prg)
        /\ ip < last.ip =>
              /\ last.op = "end_loop"
              /\ prg[last.ip + 1].op = "JumpBack"
              /\ last.cells[last.head + 1] # 0
        /\ (last.op = "interpret" /\ last.res = "Ok") => ip = Len(prg)

\* C20's case: in the tests' program the LoopEnd, met with a cell that is
\* not 0, has taken ip back to just after the LoopStart.
C20_Witness ==
    /\ vres.ok
    /\ Len(prg) = 16
    /\ status = "running"
    /\ last.op = "end_loop"
    /\ last.ip = 15
    /\ ip = 11
    /\ cells[head + 1] # 0

IsPrefix(s, t) == Len(s) <= Len(t) /\ SubSeq(t, 1, Len(s)) = s

\* C21: a Comment step adds one to ip and changes nothing else: not the
\* tape, the head, the bytes written or the bytes read.  So a balanced
\* program, and the same program with comment characters put in anywhere,
\* given the same input, end with the same tape, head and output.
C21_CommentIsNoOp ==
    /\ last.op = "Comment" =>
          /\ ip = last.ip + 1
          /\ cells = last.cells
          /\ head = last.head
          /\ out = last.out
          /\ inRead = last.inRead
          /\ eof = last.eof
          /\ status = "running"
    /\ hist # <<>> =>
          /\ vres.ok
          /\ IsPrefix(inRead, hist[1].inRead) => status # "panicked"
          /\ IsPrefix(hist[1].inRead, inRead) => inRead = hist[1].inRead
          /\ (status = "idle" /\ last.op = "interpret" /\ last.res = "Ok"
                /\ inRead = hist[1].inRead) =>
                /\ ip = Len(prg)
                /\ cells = hist[1].cells
                /\ head = hist[1].head
                /\ out = hist[1].out

\* C21's case: the tests' loop with a comment inside it has run to its end
\* after the same loop without the comment has.
C21_Witness ==
    /\ hist # <<>>
    /\ hist[1].src = <<"+", "[", "-", "]">>
    /\ src = <<"+", "[", "a", "-", "]">>
    /\ status = "idle"
    /\ last.op = "interpret"
    /\ last.res = "Ok"
    /\ cells[1] = 0

\* C22: interpret returns the already-executed error only on a machine on
\* which interpret was called before: the first interpret call on a machine
\* is never rejected, whatever input, output, move_head_left,
\* move_head_right, start_loop or end_loop calls were made on it before.
C22_FirstInterpretAccepted ==
    (last.op = "interpret" /\ last.res = "AlreadyExecuted") => nCalls >= 2

====
